---- MODULE Spec2Model ----
(***************************************************************************)
(* A model of pybitly, a client binding for the bit.ly v3 HTTP API.        *)
(*                                                                         *)
(* The repository ships two clients: the single-module client `Api`        *)
(* (src/pybitly.py) and the package client `BitlyApi`                      *)
(* (src/pybitly/api.py, with its errors in src/pybitly/errors.py).  The    *)
(* variable `impl` says which of the two was constructed.  Every method    *)
(* call is one action: it validates its arguments, issues at most one      *)
(* request through the opener, and ends by returning a value or raising.   *)
(*                                                                         *)
(* Strings that the code assembles piecewise (URLs, form bodies) are       *)
(* sequences of tokens, so that the query string can be parsed back.       *)
(* Error messages are plain strings built with \o as the code builds them. *)
(***************************************************************************)
EXTENDS Integers, Sequences, FiniteSets, TLC

VARIABLES
    impl,     \* which client class was constructed: "Api" or "BitlyApi"
    login,    \* self.login
    key,      \* self.key
    opener,   \* self.opener, the transport handle
    calls,    \* number of method calls made on the client so far
    opened,   \* number of opener.open calls made so far (network requests)
    op,       \* name of the method called last ("" before the first call)
    argv,     \* the two arguments of the last call
    sent,     \* the requests issued by the last call, in order
    resp,     \* the envelope the last call decoded (NoResp when none)
    outcome   \* how the last call ended: a returned value or a raised error

vars == <<impl, login, key, opener, calls, opened, op, argv, sent, resp, outcome>>

(***************************************************************************)
(* Bounds of the model.                                                    *)
(***************************************************************************)
\* longest list passed for a sequence parameter
MaxLen == 2
\* longest payload collection the service answers with
MaxPayload == 2
\* number of method calls in a run
MaxCalls == 2

(***************************************************************************)
(* Python values.  Every value is a record tagged with its type name `t`   *)
(* and the module `m` that defines the type.                               *)
(***************************************************************************)
None == [t |-> "NoneType", m |-> "__builtin__"]
\* a parameter the caller left out, before the default is bound
Omitted == [t |-> "<omitted>", m |-> ""]
PyStr(s) == [t |-> "str", m |-> "__builtin__", s |-> s]
PyInt(n) == [t |-> "int", m |-> "__builtin__", n |-> n]
PyBool(b) == [t |-> "bool", m |-> "__builtin__", b |-> b]
PyList(items) == [t |-> "list", m |-> "__builtin__", items |-> items]
PyTuple(items) == [t |-> "tuple", m |-> "__builtin__", items |-> items]
\* a str assembled from pieces, kept as its pieces
PyText(toks) == [t |-> "str", m |-> "__builtin__", toks |-> toks]
\* a one-key mapping {k: v}; EmptyDict is {}
PyDict(k, v) == [t |-> "dict", m |-> "__builtin__", k |-> k, v |-> v]
EmptyDict == [t |-> "dict", m |-> "__builtin__"]
\* an instance of a new-style class defined by the caller
Instance(cls) == [t |-> cls, m |-> "__main__"]

isinstance(obj, cls) == obj.t = cls

Logins == {"bob", "eve"}
Keys == {"R_1"}

\* The lists passed for a sequence parameter: [], ["x"], ["x", "y"], ...
\* (distinct elements, so that their order shows in the URL)
Words == <<"x", "y", "z", "w">>
\* the list of the strings ws
StrList(ws) == PyList([i \in 1..Len(ws) |-> PyStr(ws[i])])
Lists == {StrList(SubSeq(Words, 1, n)) : n \in 0..MaxLen}
\* values that are neither None nor a list
NonLists == {PyStr("x"), Instance("Foo")}
SeqArgs == {None} \cup Lists \cup NonLists
\* the values passed for urlHashs, the second sequence parameter
HashArgs == {None, StrList(<<>>), StrList(<<"h">>), PyInt(5)}

(***************************************************************************)
(* What the remote service may answer.  An envelope is the decoded JSON    *)
(* body: status_code, status_txt and data.  The payload of a failure is    *)
(* null.  The service pairs code 200 with the text "OK"; an envelope with  *)
(* code 200 and another text is a pair the client may still be handed,     *)
(* and has to deal with.                                                   *)
(***************************************************************************)
Failures == {<<500, "INTERNAL_ERROR">>, <<403, "RATE_LIMIT_EXCEEDED">>}

CollOps == {"expand", "clicks", "clicks_by_minute", "info"}
FlagOps == {"validate", "bitly_pro_domain"}

\* the payload collections: [], [e1], [e1, e2], ... of per-URL records
Elems == <<"e1", "e2", "e3", "e4">>
Record(i) == PyDict("short_url", PyStr(Elems[i]))
Colls == {PyList([i \in 1..n |-> Record(i)]) : n \in 0..MaxPayload}

\* the value of `data` in a success envelope of operation o
Payloads(o) ==
    IF o \in CollOps THEN {PyDict(o, c) : c \in Colls}
    ELSE IF o = "validate" THEN {PyDict("valid", PyInt(n)) : n \in {0, 1}}
    ELSE IF o = "bitly_pro_domain" THEN {PyDict("bitly_pro_domain", PyInt(n)) : n \in {0, 1}}
    ELSE IF o \in {"lookup", "authenticate"} THEN {PyDict(o, Record(i)) : i \in 1..2}
    ELSE {Record(i) : i \in 1..2}

\* one payload of operation o, for the envelope with code 200 and an odd text
OddPayload(o) ==
    IF o \in CollOps THEN PyDict(o, PyList(<<Record(1)>>))
    ELSE IF o \in FlagOps THEN PyDict(IF o = "validate" THEN "valid" ELSE o, PyInt(1))
    ELSE IF o \in {"lookup", "authenticate"} THEN PyDict(o, Record(1))
    ELSE Record(1)

Envelopes(o) ==
    {[status_code |-> 200, status_txt |-> "OK", data |-> d] : d \in Payloads(o)}
    \cup
    {[status_code |-> 200, status_txt |-> "RATE_LIMIT_EXCEEDED", data |-> OddPayload(o)]}
    \cup
    {[status_code |-> f[1], status_txt |-> f[2], data |-> None] : f \in Failures}

\* One exchange with the network, as seen by opener.open and the JSON decoder:
\* either the transport fails, or a body arrives and decodes to an envelope.
NoResp == [status_code |-> 0, status_txt |-> "", data |-> None]
Offline == [ok |-> FALSE, env |-> NoResp]
Nets(o) == {Offline} \cup {[ok |-> TRUE, env |-> e] : e \in Envelopes(o)}

(***************************************************************************)
(* How a call ends, and what it did on the way.                            *)
(***************************************************************************)
Return(val) == [kind |-> "return", exc |-> "", msg |-> "", val |-> val]
Raise(exc, msg) == [kind |-> "raise", exc |-> exc, msg |-> msg, val |-> None]
NotCalled == [kind |-> "", exc |-> "", msg |-> "", val |-> None]

\* the record a method evaluates to: requests issued, envelope decoded, ending
Result(reqs, env, out) == [sent |-> reqs, resp |-> env, outcome |-> out]

\* urllib2: a request with a body is a POST, one without is a GET
get_method(req) == IF req.data = None THEN "GET" ELSE "POST"

\* opener.open(url) / opener.open(url, data)
Request(url, data) == [url |-> url, data |-> data]

(***************************************************************************)
(* The exception classes and their bases.                                  *)
(***************************************************************************)
\* pybitly.py: ApiError(Exception), ArgTypeError(ApiError)
Api_bases ==
    [c \in {"ApiError", "ArgTypeError", "URLError"} |->
        IF c = "ArgTypeError" THEN {"ArgTypeError", "ApiError"} ELSE {c}]

\* errors.py: BitlyApiError(Exception), ArgumentError(BitlyApiError),
\* ArgTypeError(ArgumentError)
errors_bases ==
    [c \in {"BitlyApiError", "ArgumentError", "ArgTypeError", "URLError"} |->
        IF c = "ArgTypeError" THEN {"ArgTypeError", "ArgumentError", "BitlyApiError"}
        ELSE IF c = "ArgumentError" THEN {"ArgumentError", "BitlyApiError"}
        ELSE {c}]

\* whether an exception of class exc, raised by client i, is caught by `except cls`
IsA(i, exc, cls) ==
    IF i = "Api" THEN exc \in DOMAIN Api_bases /\ cls \in Api_bases[exc]
    ELSE exc \in DOMAIN errors_bases /\ cls \in errors_bases[exc]

\* pybitly.py, ArgTypeError.__init__
Api_ArgTypeError(arg, given, expected) ==
    Raise("ArgTypeError",
          "Argument '" \o arg \o "' has type '" \o given \o "', expected '" \o expected \o "'.")

\* errors.py's ArgTypeError with `given` and `expected` swapped in the format
errors_ArgTypeError_swapped(arg, given, expected) ==
    Raise("ArgTypeError",
          "Argument '" \o arg \o "' has type '" \o expected \o "', expected '" \o given \o "'.")

\* errors.py, ArgTypeError.__init__
errors_ArgTypeError(arg, given, expected) ==
    Raise("ArgTypeError",
          "Argument '" \o arg \o "' has type '" \o given \o "', expected '" \o expected \o "'.")

(***************************************************************************)
(* String helpers.  A string assembled from pieces is the sequence of its  *)
(* pieces; '%s' % v puts the text of v in the string.                      *)
(***************************************************************************)
\* '%s' % v, for the values formatted into URLs and messages
format(v) ==
    IF v.t = "str" THEN v.s
    ELSE IF v.t = "int" THEN ToString(v.n)
    ELSE IF v.t = "NoneType" THEN "None"
    ELSE "<" \o v.m \o "." \o v.t \o " object>"

\* sep.join(parts), parts being a sequence of token sequences
RECURSIVE join(_, _)
join(sep, parts) ==
    IF Len(parts) = 0 THEN <<>>
    ELSE IF Len(parts) = 1 THEN parts[1]
    ELSE parts[1] \o <<sep>> \o join(sep, Tail(parts))

\* s.split(sep), for a separator that is a token of s: the pieces between
RECURSIVE split(_, _)
split(s, sep) ==
    IF \A i \in 1..Len(s) : s[i] # sep THEN <<s>>
    ELSE LET i == CHOOSE j \in 1..Len(s) : s[j] = sep /\ \A h \in 1..(j-1) : s[h] # sep
         IN <<SubSeq(s, 1, i-1)>> \o split(SubSeq(s, i+1, Len(s)), sep)

\* str(type(obj)) in Python 2: <type 'str'> for a built-in, <class 'mod.Name'>
\* for a new-style class
str_type(obj) ==
    IF obj.m = "__builtin__" THEN <<"<type ", "'", obj.t, "'", ">">>
    ELSE <<"<class ", "'", obj.m \o "." \o obj.t, "'", ">">>

\* the parameters a query string carries: the name=value pairs that follow
\* a "?" or an "&"
QueryParams(url) ==
    {<<url[i], url[i+2]>> : i \in {j \in 2..(Len(url)-2) : url[j-1] \in {"?", "&"} /\ url[j+1] = "="}}

\* the parameters a form-encoded body carries
FormParams(body) ==
    {<<body[i], body[i+2]>> : i \in {j \in 1..(Len(body)-2) :
        (j = 1 \/ body[j-1] = "&") /\ body[j+1] = "="}}

\* urllib.urlencode of a dict: name=value pairs joined by "&", in the dict's
\* iteration order, which `order` (a permutation of the pairs) stands for
urlencode(pairs, order) ==
    join("&", [i \in 1..Len(pairs) |-> <<pairs[order[i]][1], "=", pairs[order[i]][2]>>])

\* the characters of the strings the model passes where a sequence is expected
str_chars(s) == IF s = "" THEN <<>> ELSE IF s = "x" THEN <<"x">> ELSE <<"x", "y">>

\* whether len(obj) is defined: lists, tuples and strings are sized; None,
\* numbers and plain instances raise TypeError
has_len(obj) == obj.t \in {"list", "tuple", "str"}

\* whether `for arg in obj` is defined
iterable(obj) == obj.t \in {"list", "tuple", "str"}

\* the values `for arg in obj` yields, in order
iter(obj) ==
    IF obj.t = "str" THEN [i \in 1..Len(str_chars(obj.s)) |-> PyStr(str_chars(obj.s)[i])]
    ELSE obj.items

\* the truth value of obj, as `not obj` reads it
truth(obj) ==
    IF obj.t = "NoneType" THEN FALSE
    ELSE IF has_len(obj) THEN Len(iter(obj)) # 0
    ELSE IF obj.t = "int" THEN obj.n # 0
    ELSE TRUE

FormOrders == {f \in [1..4 -> 1..4] : \A i, j \in 1..4 : f[i] = f[j] => i = j}

(***************************************************************************)
(* The single-module client: class Api of src/pybitly.py.                  *)
(***************************************************************************)
Api_baseURL == "http://api.bit.ly/v3"

\* A statement that completed without raising
Pass == [kind |-> "pass", exc |-> "", msg |-> "", val |-> None]

\* Api._checkResp
Api_checkResp(data) ==
    IF data.status_code # 200
    THEN Raise("ApiError",
               "Error " \o ToString(data.status_code) \o ": " \o data.status_txt \o ".")
    ELSE Pass

\* Api._multiArgs: len(args) comes first, and raises TypeError for a value
\* that has no length
Api_multiArgs(argname, args) ==
    IF ~has_len(args)
    THEN Raise("TypeError", "object of type '" \o args.t \o "' has no len()")
    ELSE IF Len(iter(args)) = 0 THEN Return(PyText(<<>>))
    ELSE Return(PyText(<<"&">> \o join("&", [i \in 1..Len(iter(args)) |->
                                              <<argname, "=", format(iter(args)[i])>>])))

\* Api._typeStr
Api_typeStr(obj) == split(str_type(obj), "'")[2][1]

\* "%s/<method>?login=%s&apiKey=%s" % (self.baseURL, self.login, self.key)
Api_url(method) ==
    <<Api_baseURL, "/", method, "?", "login", "=", login, "&", "apiKey", "=", key>>

\* Api_load with a second attempt after a failed exchange
Api_load_retry(req, net, val) ==
    IF ~net.ok THEN Result(<<req, req>>, NoResp, Raise("URLError", ""))
    ELSE IF Api_checkResp(net.env) # Pass
    THEN Result(<<req, req>>, net.env, Api_checkResp(net.env))
    ELSE Result(<<req>>, net.env, Return(val))

\* resp = json.load(self.opener.open(...)); self._checkResp(resp); return <val>
\* where val is what the method extracts from a checked envelope
Api_load(req, net, val) ==
    IF ~net.ok THEN Result(<<req>>, NoResp, Raise("URLError", ""))
    ELSE IF Api_checkResp(net.env) # Pass THEN Result(<<req>>, net.env, Api_checkResp(net.env))
    ELSE Result(<<req>>, net.env, Return(val))

\* data = resp['data'][name]; if len(data) == 1: data = data[0]
Api_unwrap(env, name) ==
    IF env.data = None THEN None
    ELSE LET data == env.data.v
         IN IF Len(data.items) = 1 THEN data.items[1] ELSE data

\* Api_urls_hashs with the shortcut taken on truth values (`not shortUrls and
\* not urlHashs`): an empty list then counts as an argument left out
Api_urls_hashs_falsy(method, shortUrls, urlHashs, net) ==
    IF ~truth(shortUrls) /\ ~truth(urlHashs) THEN Result(<<>>, NoResp, Return(EmptyDict))
    ELSE IF shortUrls # None /\ ~isinstance(shortUrls, "list")
    THEN Result(<<>>, NoResp, Api_ArgTypeError("shortUrls", Api_typeStr(shortUrls), "list"))
    ELSE IF urlHashs # None /\ ~isinstance(urlHashs, "list")
    THEN Result(<<>>, NoResp, Api_ArgTypeError("urlHashs", Api_typeStr(urlHashs), "list"))
    ELSE LET urlarg == IF shortUrls = None THEN <<>> ELSE Api_multiArgs("shortUrl", shortUrls).val.toks
             hasharg == IF urlHashs = None THEN <<>> ELSE Api_multiArgs("hash", urlHashs).val.toks
             url == Api_url(method) \o urlarg \o hasharg
         IN Api_load(Request(url, None), net, Api_unwrap(net.env, method))

\* The body shared, word for word, by Api.expand, Api.clicks,
\* Api.clicks_by_minute and Api.info; `method` is the endpoint and payload key
Api_urls_hashs(method, shortUrls, urlHashs, net) ==
    IF shortUrls = None /\ urlHashs = None THEN Result(<<>>, NoResp, Return(EmptyDict))
    ELSE IF shortUrls # None /\ ~isinstance(shortUrls, "list")
    THEN Result(<<>>, NoResp, Api_ArgTypeError("shortUrls", Api_typeStr(shortUrls), "list"))
    ELSE IF urlHashs # None /\ ~isinstance(urlHashs, "list")
    THEN Result(<<>>, NoResp, Api_ArgTypeError("urlHashs", Api_typeStr(urlHashs), "list"))
    ELSE LET urlarg == IF shortUrls = None THEN <<>> ELSE Api_multiArgs("shortUrl", shortUrls).val.toks
             hasharg == IF urlHashs = None THEN <<>> ELSE Api_multiArgs("hash", urlHashs).val.toks
             url == Api_url(method) \o urlarg \o hasharg
         IN Api_load(Request(url, None), net, Api_unwrap(net.env, method))

\* The body shared by Api.referrers and Api.countries
Api_url_or_hash(method, shortUrl, urlHash, net) ==
    IF shortUrl = None /\ urlHash = None THEN Result(<<>>, NoResp, Return(EmptyDict))
    ELSE IF shortUrl # None /\ urlHash # None
    THEN Result(<<>>, NoResp, Raise("ApiError", "You can submit only one URL or hash, not both."))
    ELSE LET url == IF urlHash # None
                    THEN Api_url(method) \o <<"&", "hash", "=", format(urlHash)>>
                    ELSE Api_url(method) \o <<"&", "shortUrl", "=", format(shortUrl)>>
         IN Api_load(Request(url, None), net, net.env.data)

\* Api.shorten; the default of `domain` is "bit.ly"
Api_shorten(longUrl, domain_, net) ==
    LET domain == IF domain_ = Omitted THEN PyStr("bit.ly") ELSE domain_
    IN IF domain \notin {PyStr("bit.ly"), PyStr("j.mp")}
       THEN Result(<<>>, NoResp,
                   Raise("ApiError", "Unknown domain: " \o format(domain)
                                     \o " (allowed: 'bit.ly' and 'j.mp')"))
       ELSE LET url == Api_url("shorten") \o <<"&", "longUrl", "=", format(longUrl),
                                                "&", "domain", "=", format(domain)>>
            IN Api_load(Request(url, None), net, net.env.data)

\* Api.expand
Api_expand(shortUrls, urlHashs, net) == Api_urls_hashs("expand", shortUrls, urlHashs, net)

\* Api.clicks
Api_clicks(shortUrls, urlHashs, net) == Api_urls_hashs("clicks", shortUrls, urlHashs, net)

\* Api.clicks_by_minute
Api_clicks_by_minute(shortUrls, urlHashs, net) ==
    Api_urls_hashs("clicks_by_minute", shortUrls, urlHashs, net)

\* Api.info
Api_info(shortUrls, urlHashs, net) == Api_urls_hashs("info", shortUrls, urlHashs, net)

\* Api.referrers
Api_referrers(shortUrl, urlHash, net) == Api_url_or_hash("referrers", shortUrl, urlHash, net)

\* Api.countries
Api_countries(shortUrl, urlHash, net) == Api_url_or_hash("countries", shortUrl, urlHash, net)

\* Api.validate
Api_validate(x_login, x_key, net) ==
    LET url == Api_url("validate") \o <<"&", "x_login", "=", format(x_login),
                                         "&", "x_apiKey", "=", format(x_key)>>
    IN Api_load(Request(url, None), net,
                IF net.env.data = None THEN None
                ELSE IF net.env.data.v = PyInt(1) THEN PyBool(TRUE) ELSE PyBool(FALSE))

\* Api.bitly_pro_domain
Api_bitly_pro_domain(domain, net) ==
    LET url == Api_url("bitly_pro_domain") \o <<"&", "domain", "=", format(domain)>>
    IN Api_load(Request(url, None), net,
                IF net.env.data = None THEN None
                ELSE IF net.env.data.v = PyInt(1) THEN PyBool(TRUE) ELSE PyBool(FALSE))

\* Api.lookup
Api_lookup(longUrls, net) ==
    IF longUrls = None THEN Result(<<>>, NoResp, Return(EmptyDict))
    ELSE IF ~isinstance(longUrls, "list")
    THEN Result(<<>>, NoResp, Api_ArgTypeError("longUrls", Api_typeStr(longUrls), "list"))
    ELSE LET urlarg == Api_multiArgs("url", longUrls).val.toks
             url == Api_url("lookup") \o urlarg
         IN Api_load(Request(url, None), net,
                     IF net.env.data = None THEN None ELSE net.env.data.v)

\* Api.authenticate: the only call that hands opener.open a body
Api_authenticate(x_login, password, order, net) ==
    LET url == <<Api_baseURL, "/", "authenticate">>
        data == urlencode(<< <<"login", login>>, <<"apiKey", key>>,
                             <<"x_login", format(x_login)>>,
                             <<"x_password", format(password)>> >>, order)
    IN Api_load(Request(url, PyText(data)), net,
                IF net.env.data = None THEN None ELSE net.env.data.v)

(***************************************************************************)
(* The package client: class BitlyApi of src/pybitly/api.py.               *)
(***************************************************************************)
BitlyApi_base_url == "http://api.bit.ly/v3"

ALLOWED_API_DOMAINS == <<"bit.ly", "j.mp">>

\* RespStatus.__init__: an object holding the envelope's code and text
RespStatus(status_code, status_txt) ==
    [t |-> "RespStatus", m |-> "pybitly.api", code |-> status_code, txt |-> status_txt]

\* RespStatus.is_ok
is_ok(self) == self.code = 200 /\ self.txt = "OK"

\* obj_type
obj_type(obj) == obj.t

\* A helper that would check its elements: a non-string element is refused
\* with ArgTypeError instead of being formatted
BitlyApi_multi_args_checked(argname, args) ==
    IF ~truth(args) THEN Return(PyText(<<>>))
    ELSE IF ~iterable(args)
    THEN Raise("TypeError", "'" \o args.t \o "' object is not iterable")
    ELSE IF \E i \in 1..Len(iter(args)) : iter(args)[i].t # "str"
    THEN errors_ArgTypeError(argname, obj_type(args), "list")
    ELSE Return(PyText(<<"&">> \o join("&", [i \in 1..Len(iter(args)) |->
                                              <<argname, "=", format(iter(args)[i])>>])))

\* BitlyApi._multi_args: `not args` comes first; iterating a value that is
\* not iterable raises TypeError
BitlyApi_multi_args(argname, args) ==
    IF ~truth(args) THEN Return(PyText(<<>>))
    ELSE IF ~iterable(args)
    THEN Raise("TypeError", "'" \o args.t \o "' object is not iterable")
    ELSE Return(PyText(<<"&">> \o join("&", [i \in 1..Len(iter(args)) |->
                                              <<argname, "=", format(iter(args)[i])>>])))

\* "%s/<method>?login=%s&apiKey=%s" % (self.base_url, self.login, self.key)
BitlyApi_url(method) ==
    <<BitlyApi_base_url, "/", method, "?", "login", "=", login, "&", "apiKey", "=", key>>

\* BitlyApi._get_resp: opens the URL, decodes the body and returns the pair
\* (status, data); it raises nothing of its own
BitlyApi_get_resp(url, net) ==
    IF ~net.ok THEN Result(<<Request(url, None)>>, NoResp, Raise("URLError", ""))
    ELSE Result(<<Request(url, None)>>, net.env,
                Return([t |-> "tuple", m |-> "__builtin__",
                        status |-> RespStatus(net.env.status_code, net.env.status_txt),
                        data |-> net.env.data]))

\* BitlyApi_urls_hashs with the check of urlHashs moved behind the request
\* for the short URLs: the type error then comes after a request went out
BitlyApi_urls_hashs_late(method, shortUrls, urlHashs, net) ==
    IF shortUrls = None /\ urlHashs = None THEN Result(<<>>, NoResp, Return(EmptyDict))
    ELSE IF shortUrls # None /\ ~isinstance(shortUrls, "list")
    THEN Result(<<>>, NoResp, errors_ArgTypeError("shortUrls", obj_type(shortUrls), "list"))
    ELSE LET urlarg == IF shortUrls = None THEN <<>>
                       ELSE BitlyApi_multi_args("shortUrl", shortUrls).val.toks
         IN IF urlHashs # None /\ ~isinstance(urlHashs, "list")
            THEN Result(<<Request(BitlyApi_url(method) \o urlarg, None)>>, NoResp,
                        errors_ArgTypeError("urlHashs", obj_type(urlHashs), "list"))
            ELSE LET hasharg == IF urlHashs = None THEN <<>>
                                ELSE BitlyApi_multi_args("hash", urlHashs).val.toks
                 IN BitlyApi_get_resp(BitlyApi_url(method) \o urlarg \o hasharg, net)

\* The body shared, word for word, by BitlyApi.expand, BitlyApi.clicks,
\* BitlyApi.clicks_by_minute and BitlyApi.info
BitlyApi_urls_hashs(method, shortUrls, urlHashs, net) ==
    IF shortUrls = None /\ urlHashs = None THEN Result(<<>>, NoResp, Return(EmptyDict))
    ELSE IF shortUrls # None /\ ~isinstance(shortUrls, "list")
    THEN Result(<<>>, NoResp, errors_ArgTypeError("shortUrls", obj_type(shortUrls), "list"))
    ELSE IF urlHashs # None /\ ~isinstance(urlHashs, "list")
    THEN Result(<<>>, NoResp, errors_ArgTypeError("urlHashs", obj_type(urlHashs), "list"))
    ELSE LET urlarg == IF shortUrls = None THEN <<>>
                       ELSE BitlyApi_multi_args("shortUrl", shortUrls).val.toks
             hasharg == IF urlHashs = None THEN <<>>
                        ELSE BitlyApi_multi_args("hash", urlHashs).val.toks
             url == BitlyApi_url(method) \o urlarg \o hasharg
         IN BitlyApi_get_resp(url, net)

\* The body shared by BitlyApi.referrers and BitlyApi.countries
BitlyApi_url_or_hash(method, shortUrl, urlHash, net) ==
    IF shortUrl = None /\ urlHash = None THEN Result(<<>>, NoResp, Return(EmptyDict))
    ELSE IF shortUrl # None /\ urlHash # None
    THEN Result(<<>>, NoResp,
                Raise("ArgumentError", "You can submit only one URL or hash, not both."))
    ELSE LET url == IF urlHash # None
                    THEN BitlyApi_url(method) \o <<"&", "hash", "=", format(urlHash)>>
                    ELSE BitlyApi_url(method) \o <<"&", "shortUrl", "=", format(shortUrl)>>
         IN BitlyApi_get_resp(url, net)

\* BitlyApi.shorten; the default of `domain` is None, which stands for 'bit.ly'
BitlyApi_shorten(longUrl, domain_, net) ==
    LET domain == IF domain_ \in {Omitted, None} THEN PyStr("bit.ly") ELSE domain_
    IN IF \A i \in 1..Len(ALLOWED_API_DOMAINS) : domain # PyStr(ALLOWED_API_DOMAINS[i])
       THEN Result(<<>>, NoResp,
                   Raise("ArgumentError", "Unknown domain '" \o format(domain)
                                          \o "' (allowed: 'bit.ly' and 'j.mp')"))
       ELSE LET url == BitlyApi_url("shorten") \o <<"&", "longUrl", "=", format(longUrl),
                                                     "&", "domain", "=", format(domain)>>
            IN BitlyApi_get_resp(url, net)

\* BitlyApi.expand
BitlyApi_expand(shortUrls, urlHashs, net) ==
    BitlyApi_urls_hashs("expand", shortUrls, urlHashs, net)

\* BitlyApi.clicks
BitlyApi_clicks(shortUrls, urlHashs, net) ==
    BitlyApi_urls_hashs("clicks", shortUrls, urlHashs, net)

\* BitlyApi.clicks_by_minute
BitlyApi_clicks_by_minute(shortUrls, urlHashs, net) ==
    BitlyApi_urls_hashs("clicks_by_minute", shortUrls, urlHashs, net)

\* BitlyApi.info
BitlyApi_info(shortUrls, urlHashs, net) ==
    BitlyApi_urls_hashs("info", shortUrls, urlHashs, net)

\* BitlyApi.referrers
BitlyApi_referrers(shortUrl, urlHash, net) ==
    BitlyApi_url_or_hash("referrers", shortUrl, urlHash, net)

\* BitlyApi.countries
BitlyApi_countries(shortUrl, urlHash, net) ==
    BitlyApi_url_or_hash("countries", shortUrl, urlHash, net)

\* BitlyApi.validate
BitlyApi_validate(x_login, x_key, net) ==
    LET url == BitlyApi_url("validate") \o <<"&", "x_login", "=", format(x_login),
                                              "&", "x_apiKey", "=", format(x_key)>>
    IN BitlyApi_get_resp(url, net)

\* BitlyApi.bitly_pro_domain
BitlyApi_bitly_pro_domain(domain, net) ==
    LET url == BitlyApi_url("bitly_pro_domain") \o <<"&", "domain", "=", format(domain)>>
    IN BitlyApi_get_resp(url, net)

\* BitlyApi.lookup
BitlyApi_lookup(longUrls, net) ==
    IF longUrls = None THEN Result(<<>>, NoResp, Return(EmptyDict))
    ELSE IF ~isinstance(longUrls, "list")
    THEN Result(<<>>, NoResp, errors_ArgTypeError("longUrls", obj_type(longUrls), "list"))
    ELSE LET urlarg == BitlyApi_multi_args("url", longUrls).val.toks
             url == BitlyApi_url("lookup") \o urlarg
         IN BitlyApi_get_resp(url, net)

\* BitlyApi.authenticate: `data` is built and then not handed to _get_resp
BitlyApi_authenticate(x_login, password, order, net) ==
    LET url == <<BitlyApi_base_url, "/", "authenticate">>
        data == urlencode(<< <<"login", login>>, <<"apiKey", key>>,
                             <<"x_login", format(x_login)>>,
                             <<"x_password", format(password)>> >>, order)
    IN BitlyApi_get_resp(url, net)

(***************************************************************************)
(* The state machine: a client is constructed, then its methods are        *)
(* called one after the other, each call running to its end.               *)
(***************************************************************************)
LongUrls == {PyStr("http://a.io")}
Domains == {Omitted, None, PyStr("bit.ly"), PyStr("j.mp"), PyStr("evil.com")}
OneArgs == {None, PyStr("x"), PyStr("y")}
XLogins == {PyStr(l) : l \in Logins}
XKeys == {PyStr(k) : k \in Keys}
\* authenticate is asked about another account than the client's own
AuthLogins == {PyStr("eve")}
Passwords == {PyStr("pw")}
ProDomains == {PyStr("bit.ly"), PyStr("evil.com")}

\* __init__ of either class: the credentials are stored, an opener is built
Init ==
    /\ impl \in {"Api", "BitlyApi"}
    /\ login = "bob"
    /\ key \in Keys
    /\ opener = "opener"
    /\ calls = 0
    /\ opened = 0
    /\ op = ""
    /\ argv = <<Omitted, Omitted>>
    /\ sent = <<>>
    /\ resp = NoResp
    /\ outcome = NotCalled

\* The exchanges a call can meet: what the network does matters only to a
\* call that issues a request; `dry` is the call's result with the network down
Reached(nets, dry) == IF dry.sent = <<>> THEN {Offline} ELSE nets

\* Call with validate keeping the login it was asked about as the client's own
Call_stores(o, a, b, r) ==
    /\ calls' = calls + 1
    /\ op' = o
    /\ argv' = <<a, b>>
    /\ \E res \in {r} :
          /\ opened' = opened + Len(res.sent)
          /\ sent' = res.sent
          /\ resp' = res.resp
          /\ outcome' = res.outcome
    /\ login' = IF o = "validate" THEN a.s ELSE login
    /\ UNCHANGED <<impl, key, opener>>

\* one method call with arguments a and b, which evaluated to the result r
Call(o, a, b, r) ==
    /\ calls' = calls + 1
    /\ op' = o
    /\ argv' = <<a, b>>
    /\ \E res \in {r} :
          /\ opened' = opened + Len(res.sent)
          /\ sent' = res.sent
          /\ resp' = res.resp
          /\ outcome' = res.outcome
    /\ UNCHANGED <<impl, login, key, opener>>

\* a call of Api.shorten
Call_Api_shorten ==
    /\ impl = "Api"
    /\ calls < MaxCalls
    /\ \E a \in LongUrls, b \in Domains :
          \E net \in Reached(Nets("shorten"), Api_shorten(a, b, Offline)) :
             Call("shorten", a, b, Api_shorten(a, b, net))

\* a call of Api.expand
Call_Api_expand ==
    /\ impl = "Api"
    /\ calls < MaxCalls
    /\ \E a \in SeqArgs, b \in HashArgs :
          \E net \in Reached(Nets("expand"), Api_expand(a, b, Offline)) :
             Call("expand", a, b, Api_expand(a, b, net))

\* a call of Api.validate
Call_Api_validate ==
    /\ impl = "Api"
    /\ calls < MaxCalls
    /\ \E a \in XLogins, b \in XKeys :
          \E net \in Reached(Nets("validate"), Api_validate(a, b, Offline)) :
             Call("validate", a, b, Api_validate(a, b, net))

\* a call of Api.clicks
Call_Api_clicks ==
    /\ impl = "Api"
    /\ calls < MaxCalls
    /\ \E a \in SeqArgs, b \in HashArgs :
          \E net \in Reached(Nets("clicks"), Api_clicks(a, b, Offline)) :
             Call("clicks", a, b, Api_clicks(a, b, net))

\* a call of Api.referrers
Call_Api_referrers ==
    /\ impl = "Api"
    /\ calls < MaxCalls
    /\ \E a \in OneArgs, b \in OneArgs :
          \E net \in Reached(Nets("referrers"), Api_referrers(a, b, Offline)) :
             Call("referrers", a, b, Api_referrers(a, b, net))

\* a call of Api.countries
Call_Api_countries ==
    /\ impl = "Api"
    /\ calls < MaxCalls
    /\ \E a \in OneArgs, b \in OneArgs :
          \E net \in Reached(Nets("countries"), Api_countries(a, b, Offline)) :
             Call("countries", a, b, Api_countries(a, b, net))

\* a call of Api.clicks_by_minute
Call_Api_clicks_by_minute ==
    /\ impl = "Api"
    /\ calls < MaxCalls
    /\ \E a \in SeqArgs, b \in HashArgs :
          \E net \in Reached(Nets("clicks_by_minute"), Api_clicks_by_minute(a, b, Offline)) :
             Call("clicks_by_minute", a, b, Api_clicks_by_minute(a, b, net))

\* a call of Api.bitly_pro_domain
Call_Api_bitly_pro_domain ==
    /\ impl = "Api"
    /\ calls < MaxCalls
    /\ \E a \in ProDomains :
          \E net \in Reached(Nets("bitly_pro_domain"), Api_bitly_pro_domain(a, Offline)) :
             Call("bitly_pro_domain", a, Omitted, Api_bitly_pro_domain(a, net))

\* a call of Api.lookup
Call_Api_lookup ==
    /\ impl = "Api"
    /\ calls < MaxCalls
    /\ \E a \in SeqArgs :
          \E net \in Reached(Nets("lookup"), Api_lookup(a, Offline)) :
             Call("lookup", a, Omitted, Api_lookup(a, net))

\* a call of Api.authenticate
Call_Api_authenticate ==
    /\ impl = "Api"
    /\ calls < MaxCalls
    /\ \E a \in AuthLogins, b \in Passwords, order \in FormOrders, net \in Nets("authenticate") :
          Call("authenticate", a, b, Api_authenticate(a, b, order, net))

\* a call of Api.info
Call_Api_info ==
    /\ impl = "Api"
    /\ calls < MaxCalls
    /\ \E a \in SeqArgs, b \in HashArgs :
          \E net \in Reached(Nets("info"), Api_info(a, b, Offline)) :
             Call("info", a, b, Api_info(a, b, net))

\* a call of BitlyApi.shorten
Call_BitlyApi_shorten ==
    /\ impl = "BitlyApi"
    /\ calls < MaxCalls
    /\ \E a \in LongUrls, b \in Domains :
          \E net \in Reached(Nets("shorten"), BitlyApi_shorten(a, b, Offline)) :
             Call("shorten", a, b, BitlyApi_shorten(a, b, net))

\* a call of BitlyApi.expand
Call_BitlyApi_expand ==
    /\ impl = "BitlyApi"
    /\ calls < MaxCalls
    /\ \E a \in SeqArgs, b \in HashArgs :
          \E net \in Reached(Nets("expand"), BitlyApi_expand(a, b, Offline)) :
             Call("expand", a, b, BitlyApi_expand(a, b, net))

\* a call of BitlyApi.validate
Call_BitlyApi_validate ==
    /\ impl = "BitlyApi"
    /\ calls < MaxCalls
    /\ \E a \in XLogins, b \in XKeys :
          \E net \in Reached(Nets("validate"), BitlyApi_validate(a, b, Offline)) :
             Call("validate", a, b, BitlyApi_validate(a, b, net))

\* a call of BitlyApi.clicks
Call_BitlyApi_clicks ==
    /\ impl = "BitlyApi"
    /\ calls < MaxCalls
    /\ \E a \in SeqArgs, b \in HashArgs :
          \E net \in Reached(Nets("clicks"), BitlyApi_clicks(a, b, Offline)) :
             Call("clicks", a, b, BitlyApi_clicks(a, b, net))

\* a call of BitlyApi.referrers
Call_BitlyApi_referrers ==
    /\ impl = "BitlyApi"
    /\ calls < MaxCalls
    /\ \E a \in OneArgs, b \in OneArgs :
          \E net \in Reached(Nets("referrers"), BitlyApi_referrers(a, b, Offline)) :
             Call("referrers", a, b, BitlyApi_referrers(a, b, net))

\* a call of BitlyApi.countries
Call_BitlyApi_countries ==
    /\ impl = "BitlyApi"
    /\ calls < MaxCalls
    /\ \E a \in OneArgs, b \in OneArgs :
          \E net \in Reached(Nets("countries"), BitlyApi_countries(a, b, Offline)) :
             Call("countries", a, b, BitlyApi_countries(a, b, net))

\* a call of BitlyApi.clicks_by_minute
Call_BitlyApi_clicks_by_minute ==
    /\ impl = "BitlyApi"
    /\ calls < MaxCalls
    /\ \E a \in SeqArgs, b \in HashArgs :
          \E net \in Reached(Nets("clicks_by_minute"), BitlyApi_clicks_by_minute(a, b, Offline)) :
             Call("clicks_by_minute", a, b, BitlyApi_clicks_by_minute(a, b, net))

\* a call of BitlyApi.bitly_pro_domain
Call_BitlyApi_bitly_pro_domain ==
    /\ impl = "BitlyApi"
    /\ calls < MaxCalls
    /\ \E a \in ProDomains :
          \E net \in Reached(Nets("bitly_pro_domain"), BitlyApi_bitly_pro_domain(a, Offline)) :
             Call("bitly_pro_domain", a, Omitted, BitlyApi_bitly_pro_domain(a, net))

\* a call of BitlyApi.lookup
Call_BitlyApi_lookup ==
    /\ impl = "BitlyApi"
    /\ calls < MaxCalls
    /\ \E a \in SeqArgs :
          \E net \in Reached(Nets("lookup"), BitlyApi_lookup(a, Offline)) :
             Call("lookup", a, Omitted, BitlyApi_lookup(a, net))

\* a call of BitlyApi.authenticate
Call_BitlyApi_authenticate ==
    /\ impl = "BitlyApi"
    /\ calls < MaxCalls
    /\ \E a \in AuthLogins, b \in Passwords, order \in FormOrders, net \in Nets("authenticate") :
          Call("authenticate", a, b, BitlyApi_authenticate(a, b, order, net))

\* a call of BitlyApi.info
Call_BitlyApi_info ==
    /\ impl = "BitlyApi"
    /\ calls < MaxCalls
    /\ \E a \in SeqArgs, b \in HashArgs :
          \E net \in Reached(Nets("info"), BitlyApi_info(a, b, Offline)) :
             Call("info", a, b, BitlyApi_info(a, b, net))

Next ==
    \/ Call_Api_shorten
    \/ Call_Api_expand
    \/ Call_Api_validate
    \/ Call_Api_clicks
    \/ Call_Api_referrers
    \/ Call_Api_countries
    \/ Call_Api_clicks_by_minute
    \/ Call_Api_bitly_pro_domain
    \/ Call_Api_lookup
    \/ Call_Api_authenticate
    \/ Call_Api_info
    \/ Call_BitlyApi_shorten
    \/ Call_BitlyApi_expand
    \/ Call_BitlyApi_validate
    \/ Call_BitlyApi_clicks
    \/ Call_BitlyApi_referrers
    \/ Call_BitlyApi_countries
    \/ Call_BitlyApi_clicks_by_minute
    \/ Call_BitlyApi_bitly_pro_domain
    \/ Call_BitlyApi_lookup
    \/ Call_BitlyApi_authenticate
    \/ Call_BitlyApi_info

Spec == Init /\ [][Next]_vars

(***************************************************************************)
(* Vocabulary of the properties.  These read the last call off the state:  *)
(* its method and arguments, the requests it issued, the envelope it was   *)
(* handed and how it ended.                                                *)
(***************************************************************************)
Called == op # ""
Raised == outcome.kind = "raise"
Returned == outcome.kind = "return"
\* the call was answered: a request went out and an envelope came back
Answered == Called /\ sent # <<>> /\ resp # NoResp

\* an argument error of either client's hierarchy
RaisedArgumentError ==
    Raised /\ (IsA(impl, outcome.exc, "ArgumentError") \/ IsA(impl, outcome.exc, "ArgTypeError"))

\* a value given for a sequence parameter that is neither None nor a list
NotAList(v) == v \notin {None, Omitted} /\ v.t # "list"

SeqOps == CollOps \cup {"lookup"}
PairOps == {"referrers", "countries"}

\* the name of the i-th sequence parameter of method o
ParamName(o, i) == IF o = "lookup" THEN "longUrls" ELSE IF i = 1 THEN "shortUrls" ELSE "urlHashs"

\* the texts that name the type of v: its bare name or its qualified name
TypeNames(v) == {v.t, v.m \o "." \o v.t}

\* the messages that name parameter p, the type of v, and 'list' as expected
ArgTypeMsgs(p, v) ==
    {"Argument '" \o p \o "' has type '" \o n \o "', expected 'list'." : n \in TypeNames(v)}

\* the call's arguments have the wrong shape
BadSeqArg == op \in SeqOps /\ (NotAList(argv[1]) \/ NotAList(argv[2]))
BothGiven == op \in PairOps /\ argv[1] # None /\ argv[2] # None
BadDomain ==
    /\ op = "shorten"
    /\ argv[2] \notin {Omitted, PyStr("bit.ly"), PyStr("j.mp")}
    /\ ~(impl = "BitlyApi" /\ argv[2] = None)
BadArgs == BadSeqArg \/ BothGiven \/ BadDomain

\* every argument that selects something was left out
NothingAsked ==
    \/ op \in CollOps \cup PairOps /\ argv[1] = None /\ argv[2] = None
    \/ op = "lookup" /\ argv[1] = None

(***************************************************************************)
(* C1.  Whatever the method, a call answered by an envelope whose          *)
(* status_code is not 200 ends by raising the API error with the message   *)
(* "Error <status_code>: <status_txt>.", and returns no payload.           *)
(***************************************************************************)
C1_NonOkRaisesApiError ==
    (Answered /\ resp.status_code # 200) =>
        /\ Raised
        /\ outcome.exc \in {"ApiError", "BitlyApiError"}
        /\ outcome.msg = "Error " \o ToString(resp.status_code) \o ": " \o resp.status_txt \o "."

\* C1 restricted to the single-module client, which does check the envelope
C1_Api_NonOkRaisesApiError == impl = "Api" => C1_NonOkRaisesApiError

\* a call of Api answered by the envelope {500, "INTERNAL_ERROR", null}
C1_Api_Reached ==
    /\ impl = "Api" /\ Answered /\ resp.status_code = 500
    /\ outcome = Raise("ApiError", "Error 500: INTERNAL_ERROR.")

(***************************************************************************)
(* C2.  Singleton-unwrap: expand, clicks, clicks_by_minute and info,       *)
(* called with a sequence argument and answered by a status-200 envelope,  *)
(* return the single element itself when the payload collection has one    *)
(* element, and the collection unmodified when it has two or more.         *)
(***************************************************************************)
C2_SingletonUnwrap ==
    (op \in CollOps /\ Answered /\ resp.status_code = 200) =>
        LET coll == resp.data.v
        IN /\ Len(coll.items) = 1 => outcome = Return(coll.items[1])
           /\ Len(coll.items) >= 2 => outcome = Return(coll)

\* C2 restricted to the single-module client, which unwraps
C2_Api_SingletonUnwrap == impl = "Api" => C2_SingletonUnwrap

\* Api returned a two-element payload as it came
C2_Api_Reached ==
    /\ impl = "Api" /\ op = "expand" /\ Answered /\ resp.status_code = 200
    /\ Len(resp.data.v.items) = 2 /\ outcome = Return(resp.data.v)

(***************************************************************************)
(* C3.  Fail fast: a call that ends by raising ArgumentError or            *)
(* ArgTypeError has issued no request when the error is raised, and a call *)
(* whose arguments have the wrong shape (a domain outside the allowed      *)
(* ones, both shortUrl and urlHash, a non-list for a sequence parameter in *)
(* either position) issues none, also when an earlier argument was valid.  *)
(***************************************************************************)
C3_FailFast ==
    /\ RaisedArgumentError => sent = <<>>
    /\ BadArgs => (Raised /\ sent = <<>>)

\* a type error for urlHashs, raised after shortUrls was found to be a valid list
C3_Reached ==
    /\ op = "expand" /\ argv[1] = StrList(<<"x">>) /\ argv[2] = PyInt(5)
    /\ RaisedArgumentError /\ sent = <<>>

(***************************************************************************)
(* C4 as stated.  For every sequence parameter of expand, clicks,          *)
(* clicks_by_minute, info and lookup: a value that is not None and not a   *)
(* list raises ArgTypeError whose message names that parameter, the type   *)
(* of that value, and 'list' as the expected type.                         *)
(***************************************************************************)
C4_EveryBadParamNamed ==
    \A i \in {1, 2} :
        (op \in SeqOps /\ NotAList(argv[i])) =>
            /\ Raised /\ outcome.exc = "ArgTypeError"
            /\ outcome.msg \in ArgTypeMsgs(ParamName(op, i), argv[i])

(***************************************************************************)
(* C4 as amended.  A call of these methods with a sequence argument that   *)
(* is not None and not a list raises ArgTypeError, and the message names   *)
(* the first such parameter in argument order (shortUrls before urlHashs), *)
(* the type of the value given for it, and 'list' as the expected type.    *)
(***************************************************************************)
C4_FirstBadParamNamed ==
    BadSeqArg =>
        LET i == IF NotAList(argv[1]) THEN 1 ELSE 2
        IN /\ Raised /\ outcome.exc = "ArgTypeError"
           /\ outcome.msg \in ArgTypeMsgs(ParamName(op, i), argv[i])

\* both sequence arguments are of the wrong type, and the error names the first
C4_Reached ==
    /\ op = "clicks" /\ argv[1] = PyStr("x") /\ argv[2] = PyInt(5)
    /\ outcome.exc = "ArgTypeError"
    /\ outcome.msg = "Argument 'shortUrls' has type 'str', expected 'list'."

(***************************************************************************)
(* C5.  referrers and countries: supplying both shortUrl and urlHash       *)
(* raises ArgumentError; supplying neither returns an empty result and     *)
(* issues no request.                                                      *)
(***************************************************************************)
C5_BothOrNeither ==
    op \in PairOps =>
        /\ BothGiven => (Raised /\ IsA(impl, outcome.exc, "ArgumentError"))
        /\ NothingAsked => (outcome = Return(EmptyDict) /\ sent = <<>>)

\* C5 for the package client, whose errors module has ArgumentError
C5_BitlyApi_BothOrNeither == impl = "BitlyApi" => C5_BothOrNeither

(***************************************************************************)
(* C6.  shorten with a domain other than "bit.ly" and "j.mp" raises        *)
(* ArgumentError; shorten without a domain uses "bit.ly" and is never      *)
(* rejected for its domain.                                                *)
(***************************************************************************)
C6_ShortenDomain ==
    op = "shorten" =>
        /\ (argv[2].t = "str" /\ argv[2].s \notin {"bit.ly", "j.mp"}) =>
               (Raised /\ IsA(impl, outcome.exc, "ArgumentError") /\ sent = <<>>)
        /\ argv[2] = Omitted =>
               /\ Len(sent) = 1
               /\ <<"domain", "bit.ly">> \in QueryParams(sent[1].url)
               /\ ~RaisedArgumentError

\* C6 for the package client
C6_BitlyApi_ShortenDomain == impl = "BitlyApi" => C6_ShortenDomain

(***************************************************************************)
(* C7.  Envelope invariant: a payload is returned to the caller only when  *)
(* the envelope has status_code 200 and status_txt "OK"; for any other     *)
(* code/text pair, code 200 with another text included, the payload is     *)
(* ignored and an error is raised.                                         *)
(***************************************************************************)
C7_PayloadOnlyWhenOk ==
    Answered =>
        IF resp.status_code = 200 /\ resp.status_txt = "OK" THEN Returned ELSE Raised

\* C7 for the single-module client alone: it fails as well, since
\* _checkResp reads the code and not the text
C7_Api_PayloadOnlyWhenOk == impl = "Api" => C7_PayloadOnlyWhenOk

\* what Api does instead: the payload is returned exactly when the code is 200
C7_Api_ChecksCodeOnly ==
    (impl = "Api" /\ Answered) => (Returned <=> resp.status_code = 200)

(***************************************************************************)
(* C8 as stated.  Every call performs exactly one network round trip: over *)
(* any sequence of calls, the number of requests issued equals the number  *)
(* of calls made.                                                          *)
(***************************************************************************)
C8_OneRequestPerCall == opened = calls

(***************************************************************************)
(* C8 as amended.  A call issues no request when it ends before the        *)
(* network (it returns {} because every selecting argument was left out,   *)
(* or it raises for an argument of the wrong shape) and exactly one        *)
(* request otherwise, with no retry and no second request inside a call:   *)
(* over any sequence of calls the number of requests issued is at most the *)
(* number of calls made.                                                   *)
(***************************************************************************)
C8_AtMostOneRequestPerCall ==
    /\ opened <= calls
    /\ Called => Len(sent) = (IF NothingAsked \/ BadArgs THEN 0 ELSE 1)
    /\ Len(sent) <= opened

\* two calls were made: one ended before the network, the other was sent and
\* answered with a failure envelope
C8_Reached ==
    /\ calls = 2 /\ opened = 1
    /\ Len(sent) = 1 /\ resp.status_code = 500 /\ Raised

(***************************************************************************)
(* C9.  Every request carries the client's own login and apiKey;           *)
(* authenticate is the only method sent as a POST, with a form-encoded     *)
(* body holding login, apiKey, x_login and x_password; every other method  *)
(* is sent as a GET with its parameters in the query string.               *)
(***************************************************************************)
C9_WireProtocol ==
    \A i \in 1..Len(sent) :
        LET req == sent[i]
        IN IF op = "authenticate"
           THEN /\ get_method(req) = "POST"
                /\ FormParams(req.data.toks) =
                       {<<"login", login>>, <<"apiKey", key>>,
                        <<"x_login", argv[1].s>>, <<"x_password", argv[2].s>>}
           ELSE /\ get_method(req) = "GET"
                /\ {<<"login", login>>, <<"apiKey", key>>} \subseteq QueryParams(req.url)

\* C9 for the single-module client, which hands the body to the opener
C9_Api_WireProtocol == impl = "Api" => C9_WireProtocol

(***************************************************************************)
(* C10.  validate returns a boolean that is true exactly when the payload  *)
(* of a status-200 envelope has valid == 1, and bitly_pro_domain a boolean *)
(* that is true exactly when it has bitly_pro_domain == 1; neither returns *)
(* the raw envelope or payload mapping.                                    *)
(***************************************************************************)
C10_FlagIsBoolean ==
    (op \in FlagOps /\ Answered /\ resp.status_code = 200) =>
        outcome = Return(PyBool(resp.data.v = PyInt(1)))

\* C10 for the single-module client
C10_Api_FlagIsBoolean == impl = "Api" => C10_FlagIsBoolean

(***************************************************************************)
(* C11.  The client is immutable after construction: no call, whether it   *)
(* returns a result or raises an error, changes the client's login, key or *)
(* transport handle, so after any sequence of calls they are the values    *)
(* the constructor set.                                                    *)
(***************************************************************************)
C11_ClientImmutable == [][login' = login /\ key' = key /\ opener' = opener]_vars

\* two calls were made, one answered and one that raised, and the client
\* still holds what the constructor stored
C11_Reached ==
    /\ calls = 2 /\ opened = 1 /\ Raised
    /\ login = "bob" /\ key = "R_1" /\ opener = "opener"

(***************************************************************************)
(* The multi-value parameter helper on its own: the client is constructed, *)
(* a parameter name and a value for `args` are drawn, and the helper of    *)
(* the client's class is applied to them once.                             *)
(***************************************************************************)
HelperNames == {"hash", "shortUrl", "url"}

\* None, lists of strings, lists holding a non-string, other iterables, and
\* values that are no sequence at all
HelperValues ==
    {None} \cup Lists \cup
    {PyList(<<PyInt(5)>>), PyList(<<PyStr("x"), PyInt(5)>>),
     PyTuple(<<PyStr("x"), PyStr("y")>>), PyStr("xy"), PyStr(""),
     PyInt(5), PyInt(0), Instance("Foo")}

InitHelper ==
    /\ impl \in {"Api", "BitlyApi"}
    /\ login = "bob"
    /\ key \in Keys
    /\ opener = "opener"
    /\ calls = 0
    /\ opened = 0
    /\ op = ""
    /\ argv \in {<<PyStr(n), v>> : n \in HelperNames, v \in HelperValues}
    /\ sent = <<>>
    /\ resp = NoResp
    /\ outcome = NotCalled

\* self._multiArgs(argname, args) on an Api
Apply_Api_multiArgs ==
    /\ impl = "Api"
    /\ op = ""
    /\ op' = "_multiArgs"
    /\ calls' = calls + 1
    /\ outcome' = Api_multiArgs(argv[1].s, argv[2])
    /\ UNCHANGED <<impl, login, key, opener, opened, argv, sent, resp>>

\* self._multi_args(argname, args) on a BitlyApi
Apply_BitlyApi_multi_args ==
    /\ impl = "BitlyApi"
    /\ op = ""
    /\ op' = "_multi_args"
    /\ calls' = calls + 1
    /\ outcome' = BitlyApi_multi_args(argv[1].s, argv[2])
    /\ UNCHANGED <<impl, login, key, opener, opened, argv, sent, resp>>

NextHelper ==
    \/ Apply_Api_multiArgs
    \/ Apply_BitlyApi_multi_args

SpecHelper == InitHelper /\ [][NextHelper]_vars

\* the helper was applied
HelperCalled == op \in {"_multiArgs", "_multi_args"}

\* a list, all of whose elements are strings
IsStrList(v) == v.t = "list" /\ \A i \in 1..Len(v.items) : v.items[i].t = "str"

\* "&<name>=<v1>&<name>=<v2>...", piece by piece, each value as %s shows it
RECURSIVE Fragment(_, _)
Fragment(name, values) ==
    IF values = <<>> THEN <<>>
    ELSE <<"&", name, "=", format(values[1])>> \o Fragment(name, Tail(values))

\* the string whose pieces are toks
RECURSIVE Text(_)
Text(toks) == IF toks = <<>> THEN "" ELSE toks[1] \o Text(Tail(toks))

(***************************************************************************)
(* C12.  The helper returns the empty string for an empty sequence and for *)
(* an absent (None) sequence, and for a non-empty sequence of strings      *)
(* v1..vn the concatenation of "&<name>=<vi>" in input order, so that      *)
(* ("hash", ["x", "y"]) gives "&hash=x&hash=y".                            *)
(***************************************************************************)
C12_HelperFragment ==
    HelperCalled =>
        /\ argv[2] \in {None, StrList(<<>>)} => outcome = Return(PyText(<<>>))
        /\ (IsStrList(argv[2]) /\ argv[2].items # <<>>) =>
               outcome = Return(PyText(Fragment(argv[1].s, argv[2].items)))
        /\ argv = <<PyStr("hash"), StrList(<<"x", "y">>)>> =>
               (Returned /\ Text(outcome.val.toks) = "&hash=x&hash=y")

\* C12 for the package client, whose helper tests `not args`
C12_BitlyApi_HelperFragment == impl = "BitlyApi" => C12_HelperFragment

\* C12 for the single-module client, None apart
C12_Api_HelperFragment == (impl = "Api" /\ argv[2] # None) => C12_HelperFragment

\* what the single-module client does with None: len(None) raises TypeError
C12_Api_NoneRaises ==
    (impl = "Api" /\ HelperCalled /\ argv[2] = None) =>
        outcome = Raise("TypeError", "object of type 'NoneType' has no len()")

\* a list or a tuple, all of whose elements are strings
IsStrSeq(v) == v.t \in {"list", "tuple"} /\ \A i \in 1..Len(v.items) : v.items[i].t = "str"

\* the elements a for loop over v goes through: the items of a list or a
\* tuple, the characters of a string
Elements(v) ==
    IF v.t = "str" THEN [i \in 1..Len(str_chars(v.s)) |-> PyStr(str_chars(v.s)[i])]
    ELSE v.items

\* values the helper cannot go through: without a length for Api (len(args)),
\* true and not iterable for BitlyApi (`not args`, then the for loop)
Unusable(v) ==
    IF impl = "Api" THEN v.t \notin {"list", "tuple", "str"}
    ELSE v.t \in {"int", "Foo"} /\ v # PyInt(0)

(***************************************************************************)
(* C13, as stated.  Whenever the values argument is provided (not None)    *)
(* and is not a sequence of strings, a list with a non-string element      *)
(* included, the helper fails with ArgTypeError and returns no fragment.   *)
(***************************************************************************)
C13_HelperTypeChecks ==
    (HelperCalled /\ argv[2] # None /\ ~IsStrSeq(argv[2])) =>
        (Raised /\ IsA(impl, outcome.exc, "ArgTypeError"))

(***************************************************************************)
(* C13, amended.  The helper checks no types and never fails with          *)
(* ArgTypeError: every element of a non-empty list, tuple or string is     *)
(* formatted with %s into "&<name>=<element>", string or not, and the only *)
(* failure is Python's TypeError, for a value the helper cannot measure    *)
(* (Api) or iterate (BitlyApi).                                            *)
(***************************************************************************)
C13_HelperChecksNothing ==
    HelperCalled =>
        /\ Raised => outcome.exc = "TypeError"
        /\ Raised <=> Unusable(argv[2])
        /\ (argv[2].t \in {"list", "tuple", "str"} /\ Elements(argv[2]) # <<>>) =>
               outcome = Return(PyText(Fragment(argv[1].s, Elements(argv[2]))))

\* a list holding a non-string went through the helper and came out as a
\* fragment
C13_Reached ==
    /\ HelperCalled
    /\ argv = <<PyStr("hash"), PyList(<<PyStr("x"), PyInt(5)>>)>>
    /\ Returned
    /\ Text(outcome.val.toks) = "&hash=x&hash=5"

\* the values given for the sequence parameters of the call
SeqValues == IF op = "lookup" THEN {argv[1]} ELSE {argv[1], argv[2]}

\* some sequence argument of the call is the empty list
AnEmptyList == op \in SeqOps /\ StrList(<<>>) \in SeqValues

\* some sequence argument is the empty list and the others are left out or
\* empty lists too
OnlyEmptyLists == AnEmptyList /\ SeqValues \subseteq {None, StrList(<<>>)}

\* what the envelope in resp makes of a call of the client's class: for Api
\* the error of a code other than 200, else the payload under the method's
\* key (a one-element collection unwrapped); for BitlyApi the pair of the
\* status and the data
FromEnvelope ==
    IF impl = "BitlyApi"
    THEN /\ Returned
         /\ outcome.val.t = "tuple"
         /\ outcome.val.status = RespStatus(resp.status_code, resp.status_txt)
         /\ outcome.val.data = resp.data
    ELSE IF resp.status_code # 200
    THEN outcome = Raise("ApiError", "Error " \o ToString(resp.status_code) \o ": "
                                      \o resp.status_txt \o ".")
    ELSE /\ Returned
         /\ outcome.val = IF op \in CollOps /\ Len(resp.data.v.items) = 1
                          THEN resp.data.v.items[1]
                          ELSE resp.data.v

\* one request went out, with login and apiKey as its only parameters, and
\* the call ended as the envelope says, or with the transport's error when no
\* envelope came back
AskedBare ==
    /\ Len(sent) = 1
    /\ QueryParams(sent[1].url) = {<<"login", login>>, <<"apiKey", key>>}
    /\ IF resp = NoResp THEN outcome = Raise("URLError", "") ELSE FromEnvelope

\* the local shortcut: {} returned and nothing sent
EmptyResultNoRequest == outcome = Return(EmptyDict) /\ sent = <<>>

(***************************************************************************)
(* C14, as stated.  For expand, clicks, clicks_by_minute, info and lookup, *)
(* {} with zero requests is produced only when every sequence argument is  *)
(* None; when a sequence argument is an empty list the call issues one     *)
(* request whose URL carries only login and apiKey, and ends as the        *)
(* returned envelope determines.                                           *)
(***************************************************************************)
C14_EmptyListStillAsks ==
    op \in SeqOps =>
        /\ EmptyResultNoRequest => NothingAsked
        /\ AnEmptyList => AskedBare

(***************************************************************************)
(* C14, amended.  {} with zero requests is produced only when every        *)
(* sequence argument is None; when a sequence argument is an empty list    *)
(* and every other one is None or an empty list, the call issues one       *)
(* request whose URL carries only login and apiKey, and ends as the        *)
(* returned envelope determines.  Next to a non-empty list the URL carries *)
(* that list's parameters too, and next to a non-list the call raises      *)
(* ArgTypeError without a request.                                         *)
(***************************************************************************)
C14_OnlyEmptyListsStillAsk ==
    op \in SeqOps =>
        /\ EmptyResultNoRequest => NothingAsked
        /\ OnlyEmptyLists => AskedBare
        /\ (AnEmptyList /\ ~OnlyEmptyLists) =>
               IF BadSeqArg THEN sent = <<>> /\ Raised /\ IsA(impl, outcome.exc, "ArgTypeError")
               ELSE /\ Len(sent) = 1
                    /\ \E p \in QueryParams(sent[1].url) : p[1] \in {"shortUrl", "hash"}

\* expand(shortUrls=[]) was sent with login and apiKey alone and answered
C14_Reached ==
    /\ op = "expand" /\ argv = <<StrList(<<>>), None>>
    /\ Len(sent) = 1 /\ Answered /\ resp.status_code = 200
    /\ QueryParams(sent[1].url) = {<<"login", login>>, <<"apiKey", key>>}
    /\ Returned

====
